---- MODULE Spec2Model ----
(***************************************************************************)
(* Kontract storage core: the MVCC record accessor (TableProxy), the       *)
(* transaction coordinator (SessionDO) and the version cleanup function    *)
(* (kontract_cleanup_old_versions), modelled over one physical relation.   *)
(***************************************************************************)
EXTENDS Integers, Sequences, FiniteSets, TLC

(* ------------------------------ bounds --------------------------------- *)
MaxTxid == 3        \* horizons of free-standing contexts range over 1..MaxTxid
MaxCounter == 2     \* the coordinator hands out txids up to here
NumIds == 1         \* caller-chosen record ids 1..NumIds
MaxPush == 3        \* ids generated by push(): NumIds+1 .. NumIds+MaxPush
MaxSeq == 2         \* the SERIAL sequence behind _order is used up to here
MaxUpdates == 2     \* update() calls in flight at once
MaxChunks == 3      \* length of a raw statement, in whitespace-separated chunks
MaxSelects == 2     \* resolution queries sent by the accessor
MaxTasks == 5       \* tasks submitted to the pool
NumWorkers == 3     \* workers the pool is constructed with
MaxRetries == 8     \* the maxRetries a retry loop is run with, up to here
MaxChain == 2       \* middleware in the list given to inlineMiddlewareChain
MaxCalls == 3       \* SharedStorage calls made
MaxSessions == 2    \* session ids generated by beginTransaction

(* --------------------------- program constants ------------------------- *)
CleanupLimit == 1000
\* opts?.stealThreshold ?? 2
StealThreshold == 2
BASE_DELAY == 100
MAX_DELAY == 10000
\* shouldRetry(statusOrCode, attempt, maxRetries = 3)
DefaultMaxRetries == 3

(* ------------------------------ domains -------------------------------- *)
CtxTxids == 1..MaxTxid
Ids == 1..NumIds
Sids == 1..MaxSessions
Owners == {"t1"}
\* Two owners whose registry rows name the same physical table.
Writers == {"t1", "t2"}
Fields == {"name", "email"}
Vals == {"Ann", "Bob"}

\* A payload is a string-keyed JSON object: a function from some fields to values.
Payloads == UNION {[F -> Vals] : F \in SUBSET Fields}
\* The records written by set(): a name.
InputPayloads == {p \in Payloads : DOMAIN p = {"name"}}
\* The partial records passed to update(): one field.
Partials == {p \in Payloads : Cardinality(DOMAIN p) = 1}
\* The partial records of callers that each write one field of their own.
FieldPartials == {p \in Partials : \A k \in DOMAIN p : p[k] = "Bob"}
\* The records appended by push(): the k-th push of a run appends the k-th.
ListVals == <<"a", "b", "c", "d", "e", "f">>
ListPayload(k) == [f \in {"name"} |-> ListVals[k]]
\* The filters passed to query(): the empty object, or a name.
EmptyFilter == [f \in {} |-> "Ann"]
QueryFilters == {EmptyFilter} \cup InputPayloads

VARIABLES
  tbl,          \* the physical relation: a set of rows
  orderSeq,     \* last value handed out by the SERIAL sequence of _order
  nextUuid,     \* number of ids generated by push() so far
  currentTxid,  \* SessionDO.currentTxid
  activeTxs,    \* SessionDO.activeTxs: sid -> txid
  pending,      \* beginTransaction calls suspended at their await
  nextSid,      \* number of session ids generated so far
  issued,       \* history: the txids handed out, in order
  updating,     \* update() calls suspended between their read and their write
  pushLog,      \* history: the rows inserted by push(), in order
  takeLog,      \* history: the rows returned by pop() and shift(), in order
  storage,      \* the registry row of the accessor's logical name, if any
  ptrCache,     \* TableProxy.ptrCache
  resolving,    \* calls suspended at the resolution query of getPtr()
  selects,      \* number of resolution queries sent to the executor
  doStore,      \* SharedStorage tier 1: the DO entry of the key, if any
  kvStore,      \* SharedStorage tier 2: the KV text of the key, if any
  kvOps,        \* KV writes and deletes sent and not yet applied
  sharedCalls,  \* SharedStorage calls suspended at an await
  callsMade,    \* number of SharedStorage calls made so far
  quiet,        \* history: a delete has resolved, alone, and no set was called since
  queues,       \* DOPool.queues: worker index -> the tasks queued
  running,      \* submit() calls suspended at worker.execute(task)
  submitted,    \* number of tasks submitted so far
  mwList,       \* the mw array the chain was built from: what each fn does
  chainIdx,     \* the local idx of a run of the chain
  chainStack,   \* the middleware activations of the run, innermost last
  chainLog,     \* history: what the run has executed, in order
  chainRun,     \* "idle", "running", "done" (fulfilled) or "failed" (rejected)
  retryAttempt, \* the attempt counter of a retry loop
  retryMax,     \* the maxRetries the loop passes to shouldRetry
  retrying,     \* TRUE while the loop has not given up
  retryDelays,  \* history: the delays the loop has waited, in order
  lastOp        \* history: the operation just executed and its result

vars == <<tbl, orderSeq, nextUuid, currentTxid, activeTxs, pending, nextSid, issued,
          updating, pushLog, takeLog, storage, ptrCache, resolving, selects,
          doStore, kvStore, kvOps, sharedCalls, callsMade, quiet,
          queues, running, submitted,
          mwList, chainIdx, chainStack, chainLog, chainRun,
          retryAttempt, retryMax, retrying, retryDelays, lastOp>>
storeVars == <<tbl, orderSeq, nextUuid>>
coordVars == <<currentTxid, activeTxs, pending, nextSid, issued>>
listVars == <<updating, pushLog, takeLog>>
proxyVars == <<storage, ptrCache, resolving, selects>>
sharedVars == <<doStore, kvStore, kvOps, sharedCalls, callsMade, quiet>>
poolVars == <<queues, running, submitted>>
chainVars == <<mwList, chainIdx, chainStack, chainLog, chainRun>>
retryVars == <<retryAttempt, retryMax, retrying, retryDelays>>
runtimeVars == <<sharedVars, poolVars, chainVars, retryVars>>
engineVars == <<proxyVars, storeVars, coordVars, listVars>>

(* ----------------------------- JSON payloads --------------------------- *)
\* The fields in a fixed order, for the serialised text.
FieldOrder == <<"name", "email">>

RECURSIVE StringifyFrom(_, _)
StringifyFrom(v, i) ==
  IF i > Len(FieldOrder) THEN <<>>
  ELSE IF FieldOrder[i] \in DOMAIN v
       THEN <<<<FieldOrder[i], v[FieldOrder[i]]>>>> \o StringifyFrom(v, i + 1)
       ELSE StringifyFrom(v, i + 1)

\* JSON.stringify(value): the object as a sequence of <<key, value>> pairs.
JSONStringify(v) == StringifyFrom(v, 1)

\* The jsonb column: the stored text parsed back into an object, which is
\* what the driver hands to a reader.
JsonbParse(s) ==
  [k \in {s[i][1] : i \in DOMAIN s} |-> s[CHOOSE i \in DOMAIN s : s[i][1] = k][2]]

(* ------------------------- the physical relation ----------------------- *)
\* A nullable column holds a set with at most one element; {} is SQL NULL.
NULL == {}
IsNull(x) == x = {}
ValueOf(x) == CHOOSE e \in x : TRUE

\* Columns of the data table: id, data, _txid, _deleted_txid, _owner, _order.
Row(id, data, txid, deleted, owner, order) ==
  [id |-> id, data |-> data, txid |-> txid, deleted |-> deleted,
   owner |-> owner, order |-> order]

RowsOf(t, id) == {r \in t : r.id = id}

SetMax(S) == CHOOSE x \in S : \A y \in S : y <= x
SetMin(S) == CHOOSE x \in S : \A y \in S : x <= y

\* MAX(_order) / MIN(_order) over the whole relation; NULL on an empty one.
MaxOrder(t) == IF t = {} THEN NULL ELSE {SetMax({r.order : r \in t})}
MinOrder(t) == IF t = {} THEN NULL ELSE {SetMin({r.order : r \in t})}

(* ------------------------- identifiers and text ------------------------ *)
\* A string is a sequence of one-character strings.
UpperChars == <<"A", "B", "C", "D", "E", "F", "G", "H", "I", "J", "K", "L", "M", "N", "O", "P", "Q", "R", "S", "T", "U", "V", "W", "X", "Y", "Z">>
LowerChars == <<"a", "b", "c", "d", "e", "f", "g", "h", "i", "j", "k", "l", "m", "n", "o", "p", "q", "r", "s", "t", "u", "v", "w", "x", "y", "z">>
DigitChars == <<"0", "1", "2", "3", "4", "5", "6", "7", "8", "9">>
Range(q) == {q[i] : i \in DOMAIN q}

\* [a-zA-Z0-9_]
WordChars == Range(UpperChars) \cup Range(LowerChars) \cup Range(DigitChars) \cup {"_"}

\* String.prototype.toLowerCase, on one character and on a string
LowerChar(c) ==
  IF c \in Range(UpperChars)
  THEN LowerChars[CHOOSE i \in DOMAIN UpperChars : UpperChars[i] = c]
  ELSE c
ToLowerCase(str) == [i \in DOMAIN str |-> LowerChar(str[i])]

\* /^[a-zA-Z0-9_]+$/.test(name)
MatchesAllowList(str) == Len(str) >= 1 /\ \A i \in DOMAIN str : str[i] \in WordChars

(* -------------------------- TableProxy.getPtr -------------------------- *)
\* The accessor is constructed with the logical name "u" and a context of owner "t1".
LogicalName == <<"u">>
CtxOwner == "t1"

\* The ptr values a registry row can hold: two that pass the allow-list, one
\* with a character outside it, and the empty string.
Ptrs == {<<"t", "1">>, <<"t", "2">>, <<"t", "-">>, <<>>}

\* storage.id is the primary key: at most one row for the logical name.
StorageRows == {[id |-> LogicalName, owner |-> o, ptr |-> q] : o \in Writers, q \in Ptrs}

\* Variant of the query below: no condition on the owner.
SelectPtr_AnyOwner(reg, name, owner) == {r \in reg : r.id = name}

\* SELECT ptr FROM storage WHERE id = $1 AND owner = $2
SelectPtr(reg, name, owner) == {r \in reg : r.id = name /\ r.owner = owner}

\* if (this.ptrCache) : a string is truthy when it is not empty
Truthy(cache) == ~IsNull(cache) /\ ValueOf(cache) # <<>>

\* The data statement of an operation, with the physical name interpolated.
DataStatement(kind, ptr) == [op |-> kind, table |-> ptr]

\* What an operation does once getPtr() has returned ptr: its data statement,
\* if it has one.  reg records the registry its resolution query read, if it
\* sent one.
Proceed(kind, ptr, reg) ==
  [op |-> kind, outcome |-> "ok", ptr |-> {ptr},
   stmt |-> IF kind = "getPtr" THEN NULL ELSE {DataStatement(kind, ptr)}, reg |-> reg]

\* An operation that ends with an error: no data statement.
Fail(kind, error, reg) ==
  [op |-> kind, outcome |-> error, ptr |-> NULL, stmt |-> NULL, reg |-> reg]

\* A call of getPtr(), directly or as the first step of a data operation, up to
\* its first suspension: with a cached ptr it goes on to its data statement,
\* otherwise it sends the resolution query and is suspended.
Call(kind) ==
  IF Truthy(ptrCache)
  THEN /\ lastOp' = Proceed(kind, ValueOf(ptrCache), {})
       /\ UNCHANGED <<runtimeVars, proxyVars, storeVars, coordVars, listVars>>
  ELSE /\ selects < MaxSelects
       /\ selects' = selects + 1
       /\ resolving' = resolving \cup
            {[kind |-> kind, n |-> selects + 1, reg |-> storage,
              rows |-> SelectPtr(storage, LogicalName, CtxOwner)]}
       /\ lastOp' = [op |-> "select", kind |-> kind, n |-> selects + 1]
       /\ UNCHANGED <<runtimeVars, storage, ptrCache, storeVars, coordVars, listVars>>

(* --------------------------- TableProxy.exec --------------------------- *)
\* A statement text is a sequence of chunks separated by whitespace; a chunk is
\* a non-empty string without whitespace.
KwFrom == <<"f", "r", "o", "m">>
KwJoin == <<"j", "o", "i", "n">>

\* The chunks raw statements are built from: the keywords, one of them in upper
\* case, the logical name alone and followed by a comma, another table bare
\* and quoted, and a physical name in upper case.
Chunks ==
  {KwFrom, <<"J", "O", "I", "N">>, <<"u", "p", "d", "a", "t", "e">>,
   LogicalName, LogicalName \o <<",">>, <<"o">>, <<"\"", "o", "\"">>, <<"T", "1">>}

Statements == UNION {[1..n -> Chunks] : n \in 1..MaxChunks}

\* str, from position i on
From(str, i) == [k \in 1..(Len(str) - i + 1) |-> str[i + k - 1]]

\* \b at the gap before position i of a chunk: exactly one side is a word character
Boundary(str, i) ==
  ((i > 1 /\ str[i - 1] \in WordChars) /\ ~(i <= Len(str) /\ str[i] \in WordChars))
  \/ (~(i > 1 /\ str[i - 1] \in WordChars) /\ (i <= Len(str) /\ str[i] \in WordChars))

\* name occurs in str at position i, between two word boundaries
MatchAt(str, i, name) ==
  /\ i + Len(name) - 1 <= Len(str)
  /\ \A k \in 1..Len(name) : str[i + k - 1] = name[k]
  /\ Boundary(str, i)
  /\ Boundary(str, i + Len(name))

\* chunk.replace(new RegExp(`\\b${name}\\b`, 'g'), ptr), scanning from position i
RECURSIVE ReplaceFrom(_, _, _, _)
ReplaceFrom(str, i, name, ptr) ==
  IF i > Len(str) THEN <<>>
  ELSE IF MatchAt(str, i, name)
       THEN ptr \o ReplaceFrom(str, i + Len(name), name, ptr)
       ELSE <<str[i]>> \o ReplaceFrom(str, i + 1, name, ptr)

\* sql.replace(...): whitespace is never part of a match, so chunk by chunk
Rewrite(sql, name, ptr) == [i \in DOMAIN sql |-> ReplaceFrom(sql[i], 1, name, ptr)]

\* \bfrom\s+ or \bjoin\s+ : the chunk ends with the keyword, in either case,
\* after a word boundary
EndsWith(str, kw) ==
  /\ Len(str) >= Len(kw)
  /\ ToLowerCase(From(str, Len(str) - Len(kw) + 1)) = kw
  /\ Boundary(str, Len(str) - Len(kw) + 1)

\* ([a-zA-Z0-9_]+) at the start of a chunk: its longest prefix of word characters
RECURSIVE LeadingWord(_)
LeadingWord(str) ==
  IF str = <<>> \/ str[1] \notin WordChars THEN <<>>
  ELSE <<str[1]>> \o LeadingWord(From(str, 2))

\* containsOtherTables(sql, ptr)
ContainsOtherTables(sql, ptr) ==
  \E i \in DOMAIN sql :
    /\ i < Len(sql)
    /\ EndsWith(sql[i], KwFrom) \/ EndsWith(sql[i], KwJoin)
    /\ LeadingWord(sql[i + 1]) # <<>>
    /\ ToLowerCase(LeadingWord(sql[i + 1])) # ToLowerCase(ptr)

\* exec() once getPtr() has returned ptr: the rewrite, the check, and the
\* forwarding of the rewritten statement.
ExecProceed(sql, ptr, reg) ==
  IF ContainsOtherTables(Rewrite(sql, LogicalName, ptr), ptr)
  THEN [op |-> "exec", outcome |-> "CrossTableAccess", ptr |-> {ptr}, stmt |-> NULL,
        reg |-> reg, sql |-> sql]
  ELSE [op |-> "exec", outcome |-> "ok", ptr |-> {ptr},
        stmt |-> {[op |-> "exec", text |-> Rewrite(sql, LogicalName, ptr)]},
        reg |-> reg, sql |-> sql]

\* exec(sql) up to its first suspension.
Exec(sql) ==
  IF Truthy(ptrCache)
  THEN /\ lastOp' = ExecProceed(sql, ValueOf(ptrCache), {})
       /\ UNCHANGED <<runtimeVars, proxyVars, storeVars, coordVars, listVars>>
  ELSE /\ selects < MaxSelects
       /\ selects' = selects + 1
       /\ resolving' = resolving \cup
            {[kind |-> "exec", n |-> selects + 1, reg |-> storage,
              rows |-> SelectPtr(storage, LogicalName, CtxOwner), sql |-> sql]}
       /\ lastOp' = [op |-> "select", kind |-> "exec", n |-> selects + 1]
       /\ UNCHANGED <<runtimeVars, storage, ptrCache, storeVars, coordVars, listVars>>

\* Variant of the definition below: an invalid ptr is stored before the check.
CacheAfter_StoreFirst(cache, rows) ==
  IF rows = {} THEN cache ELSE {(CHOOSE r \in rows : TRUE).ptr}

\* ptrCache after a suspended call resumes with the rows of its query.
CacheAfter(cache, rows) ==
  IF rows = {} THEN cache
  ELSE IF MatchesAllowList((CHOOSE r \in rows : TRUE).ptr)
       THEN {(CHOOSE r \in rows : TRUE).ptr}
       ELSE cache

\* The rest of getPtr() when the resolution query returns, and the data
\* statement of the operation that called it.
Resume(c) ==
  /\ c \in resolving
  /\ resolving' = resolving \ {c}
  /\ ptrCache' = CacheAfter(ptrCache, c.rows)
  /\ lastOp' =
       IF c.rows = {} THEN Fail(c.kind, "NotFound", c.reg)
       ELSE IF ~MatchesAllowList((CHOOSE r \in c.rows : TRUE).ptr)
            THEN Fail(c.kind, "InvalidIdentifier", c.reg)
            ELSE IF c.kind = "exec"
                 THEN ExecProceed(c.sql, (CHOOSE r \in c.rows : TRUE).ptr, c.reg)
                 ELSE Proceed(c.kind, (CHOOSE r \in c.rows : TRUE).ptr, c.reg)
  /\ UNCHANGED <<runtimeVars, storage, selects, storeVars, coordVars, listVars>>

\* The registry row of the logical name is provisioned, changed or removed.
Provision(reg) ==
  /\ reg # storage
  /\ storage' = reg
  /\ lastOp' = [op |-> "provision"]
  /\ UNCHANGED <<runtimeVars, ptrCache, resolving, selects, storeVars, coordVars, listVars>>

\* The registry contents: no row, or one row for the logical name.
Registries == {{}} \cup {{r} : r \in StorageRows}

\* The operations that resolve through getPtr().
OpKinds == {"getPtr", "get"}

(* --------------------------- TableProxy.get ---------------------------- *)
\* Variants of the WHERE clause below: a strict bound on the deletion marker, no
\* filter on the deletion marker, and an inclusive bound on the creation txid.
GetWhere_StrictDeleted(r, id, t) ==
  /\ r.id = id
  /\ r.txid < t
  /\ (IsNull(r.deleted) \/ ValueOf(r.deleted) > t)

GetWhere_NoDeletedFilter(r, id, t) ==
  /\ r.id = id
  /\ r.txid < t

GetWhere_InclusiveTxid(r, id, t) ==
  /\ r.id = id
  /\ r.txid <= t
  /\ (IsNull(r.deleted) \/ ValueOf(r.deleted) >= t)

\* WHERE id = $1 AND _txid < $2 AND (_deleted_txid IS NULL OR _deleted_txid >= $2)
GetWhere(r, id, t) ==
  /\ r.id = id
  /\ r.txid < t
  /\ (IsNull(r.deleted) \/ ValueOf(r.deleted) >= t)

\* The rows the SELECT of get() returns.
GetRows(t, id, txid) == {r \in t : GetWhere(r, id, txid)}

\* result.rows[0]?.data ?? null : the possible results of get(), {} is null.
GetResults(t, id, txid) ==
  IF GetRows(t, id, txid) = {} THEN {NULL}
  ELSE {{r.data} : r \in GetRows(t, id, txid)}

\* The last operation that was not a get.
LastWrite == IF lastOp.op = "get" THEN lastOp.prev ELSE lastOp

Get(id, txid) ==
  /\ \E res \in GetResults(tbl, id, txid) :
       lastOp' = [op |-> "get", id |-> id, txid |-> txid, result |-> res,
                  prev |-> LastWrite]
  /\ UNCHANGED <<runtimeVars, proxyVars, storeVars, coordVars, listVars>>

(* --------------------------- TableProxy.set ---------------------------- *)
\* Variant of the statement below: the update also takes _owner.
Upsert_TakesOwner(t, id, text, txid, owner, seq) ==
  IF RowsOf(t, id) = {}
  THEN t \cup {Row(id, JsonbParse(text), txid, NULL, owner, seq)}
  ELSE {IF r.id = id
        THEN [r EXCEPT !.data = JsonbParse(text), !.txid = txid, !.owner = owner]
        ELSE r : r \in t}

\* INSERT ... VALUES ($1, $2, $3, $4) ON CONFLICT (id) DO UPDATE
\*   SET data = EXCLUDED.data, _txid = EXCLUDED._txid
\* The proposed row takes _order from the column default (SERIAL), which is
\* drawn from the sequence before the conflict on id is detected.
Upsert(t, id, text, txid, owner, seq) ==
  IF RowsOf(t, id) = {}
  THEN t \cup {Row(id, JsonbParse(text), txid, NULL, owner, seq)}
  ELSE {IF r.id = id THEN [r EXCEPT !.data = JsonbParse(text), !.txid = txid] ELSE r
          : r \in t}

Set(id, value, txid, owner) ==
  /\ orderSeq < MaxSeq
  /\ orderSeq' = orderSeq + 1
  /\ tbl' = Upsert(tbl, id, JSONStringify(value), txid, owner, orderSeq + 1)
  /\ lastOp' = [op |-> "set", id |-> id, txid |-> txid, value |-> value, owner |-> owner]
  /\ UNCHANGED <<runtimeVars, proxyVars, nextUuid, coordVars, listVars>>

(* -------------------------- TableProxy.update -------------------------- *)
\* Object.assign({}, base, partial)
ObjectAssign(base, partial) ==
  [k \in DOMAIN base \cup DOMAIN partial |->
     IF k \in DOMAIN partial THEN partial[k] ELSE base[k]]

\* current ?? {}
BaseOf(current) == IF IsNull(current) THEN [k \in {} |-> "Ann"] ELSE ValueOf(current)

\* update() up to the return of its get(): the call is suspended holding
\* `current`.  seen records the physical rows of the id at that moment.
UpdateRead(id, partial, txid, owner) ==
  /\ Cardinality(updating) < MaxUpdates
  /\ \E cur \in GetResults(tbl, id, txid) :
       updating' = updating \cup
         {[id |-> id, partial |-> partial, txid |-> txid, owner |-> owner,
           current |-> cur, seen |-> RowsOf(tbl, id)]}
  /\ lastOp' = [op |-> "updateRead", id |-> id, txid |-> txid, partial |-> partial]
  /\ UNCHANGED <<runtimeVars, proxyVars, storeVars, coordVars, pushLog, takeLog>>

\* Variant of the definition below: the record as stored when the write runs.
MergeBase_Fresh(u, t) ==
  IF RowsOf(t, u.id) = {} THEN BaseOf(NULL)
  ELSE (CHOOSE r \in RowsOf(t, u.id) : TRUE).data

\* `base` of a suspended call u when it resumes over a table t: the value
\* its own get() returned.
MergeBase(u, t) == BaseOf(u.current)

\* update() from there to its end: the merge and the set().  before records
\* the physical rows of the id when the write runs, seen those at the read.
UpdateWrite(u) ==
  /\ u \in updating
  /\ orderSeq < MaxSeq
  /\ orderSeq' = orderSeq + 1
  /\ updating' = updating \ {u}
  /\ tbl' = Upsert(tbl, u.id, JSONStringify(ObjectAssign(MergeBase(u, tbl), u.partial)),
                   u.txid, u.owner, orderSeq + 1)
  /\ lastOp' = [op |-> "update", id |-> u.id, txid |-> u.txid, partial |-> u.partial,
                value |-> ObjectAssign(MergeBase(u, tbl), u.partial),
                undisturbed |-> (RowsOf(tbl, u.id) = u.seen),
                before |-> RowsOf(tbl, u.id), seen |-> u.seen]
  /\ UNCHANGED <<runtimeVars, proxyVars, nextUuid, coordVars, pushLog, takeLog>>

(* -------------------------- TableProxy.delete -------------------------- *)
\* Variant of the statement below: a marker already set is kept.
MarkDeleted_KeepFirst(t, id, txid) ==
  {IF r.id = id /\ IsNull(r.deleted) THEN [r EXCEPT !.deleted = {txid}] ELSE r : r \in t}

\* UPDATE ptr SET _deleted_txid = $2 WHERE id = $1 RETURNING id
MarkDeleted(t, id, txid) ==
  {IF r.id = id THEN [r EXCEPT !.deleted = {txid}] ELSE r : r \in t}

Delete(id, txid) ==
  /\ tbl' = MarkDeleted(tbl, id, txid)
  /\ lastOp' = [op |-> "delete", id |-> id, txid |-> txid,
                result |-> (RowsOf(tbl, id) # {})]
  /\ UNCHANGED <<runtimeVars, proxyVars, orderSeq, nextUuid, coordVars, listVars>>

(* --------------------------- TableProxy.push --------------------------- *)
\* Variant of the definition below: the maximum itself, without the increment.
NextOrder_NoIncrement(t) == IF IsNull(MaxOrder(t)) THEN 0 + 1 ELSE ValueOf(MaxOrder(t))

\* (SELECT COALESCE(MAX(_order), 0) + 1 FROM ptr)
NextOrder(t) == IF IsNull(MaxOrder(t)) THEN 0 + 1 ELSE ValueOf(MaxOrder(t)) + 1

Push(value, txid, owner) ==
  /\ nextUuid < MaxPush
  /\ nextUuid' = nextUuid + 1
  /\ tbl' = tbl \cup {Row(NumIds + nextUuid + 1, JsonbParse(JSONStringify(value)),
                          txid, NULL, owner, NextOrder(tbl))}
  /\ pushLog' = Append(pushLog, Row(NumIds + nextUuid + 1, JsonbParse(JSONStringify(value)),
                                    txid, NULL, owner, NextOrder(tbl)))
  /\ lastOp' = [op |-> "push", id |-> NumIds + nextUuid + 1, txid |-> txid,
                value |-> value]
  /\ UNCHANGED <<runtimeVars, proxyVars, orderSeq, coordVars, updating, takeLog>>

(* ------------------------ TableProxy.pop / shift ----------------------- *)
\* Variant of the definition below: the least order instead of the greatest.
PopRows_Least(t, txid) ==
  {r \in t : ~IsNull(MinOrder(t)) /\ r.order = ValueOf(MinOrder(t)) /\ r.txid < txid}

\* DELETE FROM ptr WHERE _order = (SELECT MAX(_order) FROM ptr) AND _txid < $1
PopRows(t, txid) ==
  {r \in t : ~IsNull(MaxOrder(t)) /\ r.order = ValueOf(MaxOrder(t)) /\ r.txid < txid}

\* DELETE FROM ptr WHERE _order = (SELECT MIN(_order) FROM ptr) AND _txid < $1
ShiftRows(t, txid) ==
  {r \in t : ~IsNull(MinOrder(t)) /\ r.order = ValueOf(MinOrder(t)) /\ r.txid < txid}

\* RETURNING data, then result.rows[0]?.data ?? null
Returning(D) == IF D = {} THEN {NULL} ELSE {{r.data} : r \in D}

\* The deleted rows that can be rows[0]: one of them, or none (NULL).
FirstRow(D) == IF D = {} THEN {NULL} ELSE {{r} : r \in D}

\* The history of returned rows, after a call whose rows[0] is `first`.
Taken(log, first) == IF IsNull(first) THEN log ELSE Append(log, ValueOf(first))

Pop(txid) ==
  /\ tbl' = tbl \ PopRows(tbl, txid)
  /\ \E first \in FirstRow(PopRows(tbl, txid)) :
       /\ \E res \in Returning({r \in PopRows(tbl, txid) : first = {r}}) :
            lastOp' = [op |-> "pop", txid |-> txid, result |-> res, row |-> first]
       /\ takeLog' = Taken(takeLog, first)
  /\ UNCHANGED <<runtimeVars, proxyVars, orderSeq, nextUuid, coordVars, updating, pushLog>>

Shift(txid) ==
  /\ tbl' = tbl \ ShiftRows(tbl, txid)
  /\ \E first \in FirstRow(ShiftRows(tbl, txid)) :
       /\ \E res \in Returning({r \in ShiftRows(tbl, txid) : first = {r}}) :
            lastOp' = [op |-> "shift", txid |-> txid, result |-> res, row |-> first]
       /\ takeLog' = Taken(takeLog, first)
  /\ UNCHANGED <<runtimeVars, proxyVars, orderSeq, nextUuid, coordVars, updating, pushLog>>

(* --------------------------- TableProxy.query -------------------------- *)
\* data @> filter on jsonb objects with scalar fields: every field of the
\* filter is a field of the data, with the same value.
Contains(data, filter) ==
  \A k \in DOMAIN filter : k \in DOMAIN data /\ data[k] = filter[k]

\* WHERE data @> $1::jsonb AND _txid < $2
QueryWhere(r, text, t) ==
  /\ Contains(r.data, JsonbParse(text))
  /\ r.txid < t

QueryRows(t, filter, txid) == {r \in t : QueryWhere(r, JSONStringify(filter), txid)}

\* ORDER BY _order : the possible row lists, rows of equal _order in any order.
OrderByOrder(S) ==
  {s \in [1..Cardinality(S) -> S] :
     /\ \A i, j \in 1..Cardinality(S) : i # j => s[i] # s[j]
     /\ \A i, j \in 1..Cardinality(S) : i < j => s[i].order <= s[j].order}

\* query(filter), iterated to its end: the records yielded, in order.
Query(filter, txid) ==
  /\ \E rows \in OrderByOrder(QueryRows(tbl, filter, txid)) :
       lastOp' = [op |-> "query", filter |-> filter, txid |-> txid,
                  result |-> [i \in DOMAIN rows |-> rows[i].data], rows |-> rows]
  /\ UNCHANGED <<runtimeVars, proxyVars, storeVars, coordVars, listVars>>

\* The ids a caller can name: its own keys and the ids push() has returned.
KnownIds == Ids \cup (NumIds + 1 .. NumIds + nextUuid)

(* ------------------------------ SessionDO ------------------------------ *)
\* Variant of the definition below: the map is replaced by the one entry.
MapSet_Replace(m, k, v) == [x \in {k} |-> v]

\* activeTxs.set(sid, txid) of a Map
MapSet(m, k, v) == [x \in DOMAIN m \cup {k} |-> IF x = k THEN v ELSE m[x]]

\* Variant of the definition below: the whole map is cleared.
MapDelete_Clear(m, k) == [x \in {} |-> m[x]]

\* activeTxs.delete(sid) of a Map
MapDelete(m, k) == [x \in DOMAIN m \ {k} |-> m[x]]

\* Variant of the comparison below: the other direction.
Smaller_Flipped(v, min) == v > ValueOf(min)

\* v < min, the comparison of the loop
Smaller(v, min) == v < ValueOf(min)

\* The loop of the minActiveTxid getter over activeTxs.values().
RECURSIVE MinLoop(_, _, _)
MinLoop(m, todo, min) ==
  IF todo = {} THEN min
  ELSE LET k == CHOOSE x \in todo : TRUE
           v == m[k]
       IN MinLoop(m, todo \ {k}, IF IsNull(min) \/ Smaller(v, min) THEN {v} ELSE min)

\* get minActiveTxid(), as a function of the coordinator's two fields.
MinActive(cur, m) ==
  IF Cardinality(DOMAIN m) = 0 THEN cur ELSE ValueOf(MinLoop(m, DOMAIN m, NULL))

minActiveTxid == MinActive(currentTxid, activeTxs)

\* allocateTxid(): the body runs without suspension.
AllocateTxid ==
  /\ currentTxid < MaxCounter
  /\ currentTxid' = currentTxid + 1
  /\ issued' = Append(issued, currentTxid + 1)
  /\ lastOp' = [op |-> "allocateTxid", result |-> currentTxid + 1]
  /\ UNCHANGED <<runtimeVars, proxyVars, storeVars, listVars, activeTxs, pending, nextSid>>

\* beginTransaction() up to its await: the sid is generated and the txid is
\* allocated; the call is then suspended.
BeginCall ==
  /\ currentTxid < MaxCounter
  /\ nextSid < MaxSessions
  /\ nextSid' = nextSid + 1
  /\ currentTxid' = currentTxid + 1
  /\ issued' = Append(issued, currentTxid + 1)
  /\ pending' = pending \cup {[sid |-> nextSid + 1, txid |-> currentTxid + 1]}
  /\ lastOp' = [op |-> "beginCall", sid |-> nextSid + 1]
  /\ UNCHANGED <<runtimeVars, proxyVars, storeVars, listVars, activeTxs>>

\* Variant of the definition below: the counter is read after the await.
RecordedTxid_Reread(p) == currentTxid

\* beginTransaction() after its await: the txid it holds in its local `txid`.
RecordedTxid(p) == p.txid

BeginResume(p) ==
  /\ p \in pending
  /\ pending' = pending \ {p}
  /\ activeTxs' = MapSet(activeTxs, p.sid, RecordedTxid(p))
  /\ lastOp' = [op |-> "beginTransaction", sid |-> p.sid, result |-> RecordedTxid(p)]
  /\ UNCHANGED <<runtimeVars, proxyVars, storeVars, listVars, currentTxid, nextSid, issued>>

\* commit(sid)
Commit(sid) ==
  /\ activeTxs' = MapDelete(activeTxs, sid)
  /\ lastOp' = [op |-> "commit", sid |-> sid]
  /\ UNCHANGED <<runtimeVars, proxyVars, storeVars, listVars, currentTxid, pending, nextSid, issued>>

\* The session ids a caller can pass to commit: those returned to it, and an
\* id that was never generated (0).
CommitSids == (0 .. nextSid) \ {p.sid : p \in pending}

(* ---------------------- kontract_cleanup_old_versions ------------------ *)
\* Variant of the definition below: no HAVING clause.
CleanupGroups_NoHaving(t, h) ==
  {id \in {r.id : r \in t} : Cardinality({r \in t : r.id = id /\ r.txid < h}) > 0}

\* SELECT id FROM tbl WHERE _txid < min_txid GROUP BY id HAVING COUNT(*) > 1
CleanupGroups(t, h) ==
  {id \in {r.id : r \in t} : Cardinality({r \in t : r.id = id /\ r.txid < h}) > 1}

\* _txid of a group, the sort key of ORDER BY _txid ASC
GroupTxid(t, id, h) == SetMin({r.txid : r \in {x \in t : x.id = id /\ x.txid < h}})

\* ... ORDER BY _txid ASC LIMIT 1000 : the possible id lists, as sets
CleanupIds(t, h) ==
  LET G == CleanupGroups(t, h)
      n == IF Cardinality(G) < CleanupLimit THEN Cardinality(G) ELSE CleanupLimit
  IN {S \in SUBSET G :
        /\ Cardinality(S) = n
        /\ \A a \in S, b \in G \ S : GroupTxid(t, a, h) <= GroupTxid(t, b, h)}

\* Variant of the definition below: no restriction to the selected ids.
CleanupDelete_AllBelow(t, h, S) == {r \in t : ~(r.txid < h)}

\* Variant of the definition below: an inclusive bound, and no restriction to
\* the selected ids.
CleanupDelete_Inclusive(t, h, S) == {r \in t : ~(r.txid <= h)}

\* DELETE FROM tbl WHERE _txid < min_txid AND id IN (...)
CleanupDelete(t, h, S) == {r \in t : ~(r.txid < h /\ r.id \in S)}

\* One run of the cleanup function with min_txid = minActiveTxid.
Sweep ==
  /\ \E S \in CleanupIds(tbl, minActiveTxid) :
       tbl' = CleanupDelete(tbl, minActiveTxid, S)
  /\ lastOp' = [op |-> "sweep", horizon |-> minActiveTxid]
  /\ UNCHANGED <<runtimeVars, proxyVars, orderSeq, nextUuid, coordVars, listVars>>

(* ----------------------------- SharedStorage --------------------------- *)
\* The accessor is used with one key; the values stored under it.
SharedVals == {"x", "y"}

\* JSON.stringify(value) of a string, and the parse of kv.get(key, {type: 'json'})
JsonText(v) == <<"\"", v, "\"">>
JsonParse(text) == text[2]

\* MemoryDOStub.get: the value of the entry, or null
DoGet(store) == IF store = {} THEN NULL ELSE {e.value : e \in store}

\* kv.get(key, {type: 'json'}): the parsed value, or null
KvGet(store) == IF store = {} THEN NULL ELSE {JsonParse(t) : t \in store}

\* set(key, value) up to its await: doStub.set has run.
SharedSetCall(v) ==
  /\ callsMade < MaxCalls
  /\ callsMade' = callsMade + 1
  /\ doStore' = {[value |-> v, ttl |-> FALSE]}
  /\ sharedCalls' = sharedCalls \cup {[op |-> "set", n |-> callsMade + 1, value |-> v]}
  /\ quiet' = FALSE
  /\ lastOp' = [op |-> "sharedSetCall", n |-> callsMade + 1]
  /\ UNCHANGED <<kvStore, kvOps, poolVars, chainVars, retryVars, engineVars>>

\* set(key, value) after its await: kv.put is sent and not awaited.
SharedSetResume(c) ==
  /\ c \in sharedCalls
  /\ c.op = "set"
  /\ sharedCalls' = sharedCalls \ {c}
  /\ kvOps' = kvOps \cup {[kind |-> "put", n |-> c.n, value |-> {JsonText(c.value)}]}
  /\ lastOp' = [op |-> "sharedSet", n |-> c.n]
  /\ UNCHANGED <<doStore, kvStore, callsMade, quiet, poolVars, chainVars, retryVars, engineVars>>

\* delete(key) up to its await: doStub.delete has run.
SharedDeleteCall ==
  /\ callsMade < MaxCalls
  /\ callsMade' = callsMade + 1
  /\ doStore' = {}
  /\ sharedCalls' = sharedCalls \cup
       {[op |-> "delete", n |-> callsMade + 1, alone |-> (sharedCalls = {})]}
  /\ lastOp' = [op |-> "sharedDeleteCall", n |-> callsMade + 1]
  /\ UNCHANGED <<kvStore, kvOps, quiet, poolVars, chainVars, retryVars, engineVars>>

\* delete(key) after its await: kv.delete is sent and not awaited.
SharedDeleteResume(c) ==
  /\ c \in sharedCalls
  /\ c.op = "delete"
  /\ sharedCalls' = sharedCalls \ {c}
  /\ kvOps' = kvOps \cup {[kind |-> "delete", n |-> c.n, value |-> NULL]}
  /\ quiet' = (quiet \/ (c.alone /\ sharedCalls = {c} /\ callsMade = c.n))
  /\ lastOp' = [op |-> "sharedDelete", n |-> c.n]
  /\ UNCHANGED <<doStore, kvStore, callsMade, poolVars, chainVars, retryVars, engineVars>>

\* get(key) up to its first await: doStub.get has run.
SharedGetCall ==
  /\ callsMade < MaxCalls
  /\ callsMade' = callsMade + 1
  /\ sharedCalls' = sharedCalls \cup
       {[op |-> "get", n |-> callsMade + 1, stage |-> "do", cached |-> DoGet(doStore),
         kvValue |-> NULL, quiet |-> quiet]}
  /\ lastOp' = [op |-> "sharedGetCall", n |-> callsMade + 1]
  /\ UNCHANGED <<doStore, kvStore, kvOps, quiet, poolVars, chainVars, retryVars, engineVars>>

\* get(key) after doStub.get: a cached value is returned, otherwise kv.get runs.
SharedGetTier2(c) ==
  /\ c \in sharedCalls
  /\ c.op = "get"
  /\ c.stage = "do"
  /\ IF ~IsNull(c.cached)
     THEN /\ sharedCalls' = sharedCalls \ {c}
          /\ lastOp' = [op |-> "sharedGet", n |-> c.n, result |-> c.cached,
                        quiet |-> c.quiet, filled |-> FALSE]
     ELSE /\ sharedCalls' = (sharedCalls \ {c}) \cup
               {[c EXCEPT !.stage = "kv", !.kvValue = KvGet(kvStore)]}
          /\ lastOp' = [op |-> "kvGet", n |-> c.n]
  /\ UNCHANGED <<doStore, kvStore, kvOps, callsMade, quiet, poolVars, chainVars, retryVars, engineVars>>

\* get(key) after kv.get: a value found is written back to the DO tier with a
\* ttl, otherwise null is returned.
SharedGetBackfill(c) ==
  /\ c \in sharedCalls
  /\ c.op = "get"
  /\ c.stage = "kv"
  /\ IF ~IsNull(c.kvValue)
     THEN /\ doStore' = {[value |-> ValueOf(c.kvValue), ttl |-> TRUE]}
          /\ sharedCalls' = (sharedCalls \ {c}) \cup {[c EXCEPT !.stage = "fill"]}
          /\ lastOp' = [op |-> "backfill", n |-> c.n]
     ELSE /\ sharedCalls' = sharedCalls \ {c}
          /\ lastOp' = [op |-> "sharedGet", n |-> c.n, result |-> NULL,
                        quiet |-> c.quiet, filled |-> FALSE]
          /\ UNCHANGED doStore
  /\ UNCHANGED <<kvStore, kvOps, callsMade, quiet, poolVars, chainVars, retryVars, engineVars>>

\* get(key) after the backfill: the KV value is returned.
SharedGetReturn(c) ==
  /\ c \in sharedCalls
  /\ c.op = "get"
  /\ c.stage = "fill"
  /\ sharedCalls' = sharedCalls \ {c}
  /\ lastOp' = [op |-> "sharedGet", n |-> c.n, result |-> c.kvValue,
                quiet |-> c.quiet, filled |-> TRUE]
  /\ UNCHANGED <<doStore, kvStore, kvOps, callsMade, quiet, poolVars, chainVars, retryVars, engineVars>>

\* A KV write or delete that was sent takes effect.
KvLand(o) ==
  /\ o \in kvOps
  /\ kvOps' = kvOps \ {o}
  /\ kvStore' = IF o.kind = "put" THEN o.value ELSE {}
  /\ lastOp' = [op |-> "kvLand", n |-> o.n]
  /\ UNCHANGED <<doStore, sharedCalls, callsMade, quiet, poolVars, chainVars, retryVars, engineVars>>

\* A KV write or delete that was sent is rejected: .catch(() => {})
KvFail(o) ==
  /\ o \in kvOps
  /\ kvOps' = kvOps \ {o}
  /\ lastOp' = [op |-> "kvFail", n |-> o.n]
  /\ UNCHANGED <<doStore, kvStore, sharedCalls, callsMade, quiet, poolVars, chainVars, retryVars, engineVars>>

\* A DO entry written with a ttl expires.
DoExpire ==
  /\ \E e \in doStore : e.ttl
  /\ doStore' = {}
  /\ lastOp' = [op |-> "doExpire"]
  /\ UNCHANGED <<kvStore, kvOps, sharedCalls, callsMade, quiet, poolVars, chainVars, retryVars, engineVars>>

(* --------------------------------- DOPool -------------------------------- *)
WorkerIds == 0..(NumWorkers - 1)

\* getLeastBusyWorker(): the first index, in Map order, of a shortest queue
LeastBusyWorker(q) ==
  SetMin({i \in WorkerIds : \A j \in WorkerIds : Len(q[i]) <= Len(q[j])})

\* shouldSteal()
ShouldSteal(q) ==
  /\ NumWorkers >= 2
  /\ SetMax({Len(q[i]) : i \in WorkerIds}) >
       SetMin({Len(q[i]) : i \in WorkerIds}) * StealThreshold

\* entries[0] and entries[entries.length - 1] of the entries sorted by queue
\* length with a stable sort: the first shortest and the last longest queue
Idler(q) == LeastBusyWorker(q)
Busiest(q) == SetMax({i \in WorkerIds : \A j \in WorkerIds : Len(q[j]) <= Len(q[i])})

\* stealWork(): the first half of the busiest queue goes to the end of the idler's
StealWork(q) ==
  LET count == Len(q[Busiest(q)]) \div 2
  IN  IF count = 0 THEN q
      ELSE [q EXCEPT ![Busiest(q)] = SubSeq(@, count + 1, Len(@)),
                     ![Idler(q)] = @ \o SubSeq(q[Busiest(q)], 1, count)]

\* queue.splice(queue.indexOf(task), 1) when the task is in the queue
RemoveTask(queue, task) ==
  IF \E i \in DOMAIN queue : queue[i] = task
  THEN LET idx == SetMin({i \in DOMAIN queue : queue[i] = task})
       IN  SubSeq(queue, 1, idx - 1) \o SubSeq(queue, idx + 1, Len(queue))
  ELSE queue

\* submit(task) up to its await: the task is queued at the least busy worker,
\* work is stolen if the queues are unbalanced, and execute() is called.
Submit ==
  /\ submitted < MaxTasks
  /\ submitted' = submitted + 1
  /\ LET workerId == LeastBusyWorker(queues)
         pushed == [queues EXCEPT ![workerId] = Append(@, submitted + 1)]
     IN  /\ queues' = IF ShouldSteal(pushed) THEN StealWork(pushed) ELSE pushed
         /\ running' = running \cup {[task |-> submitted + 1, workerId |-> workerId]}
         /\ lastOp' = [op |-> "submit", task |-> submitted + 1, workerId |-> workerId,
                       stolen |-> (ShouldSteal(pushed) /\ StealWork(pushed) # pushed)]
  /\ UNCHANGED <<sharedVars, chainVars, retryVars, engineVars>>

\* execute() settles, fulfilled or rejected: the finally block removes the task
\* from the queue submit() pushed it to, if it is there.
Settle(r) ==
  /\ r \in running
  /\ running' = running \ {r}
  /\ queues' = [queues EXCEPT ![r.workerId] = RemoveTask(@, r.task)]
  /\ \E outcome \in {"fulfilled", "rejected"} :
       lastOp' = [op |-> "settle", task |-> r.task, outcome |-> outcome]
  /\ UNCHANGED <<submitted, sharedVars, chainVars, retryVars, engineVars>>

(* -------------------------- inlineMiddlewareChain ------------------------ *)
\* What the fn of a middleware does, as a program: code before and after its
\* calls of next(), each of which it awaits.  "pass" calls next() once, "stop"
\* never, "twice" two times, "guarded" two times with the second in a try/catch.
MwKinds == {"pass", "stop", "twice", "guarded"}

Program(kind) ==
  CASE kind = "pass" -> <<"pre", "next", "post">>
    [] kind = "stop" -> <<"pre", "post">>
    [] kind = "twice" -> <<"pre", "next", "next", "post">>
    [] kind = "guarded" -> <<"pre", "next", "trynext", "post">>

MwLists == UNION {[1..n -> MwKinds] : n \in 0..MaxChain}

\* An activation: i is the argument of the runner that started it, pc the
\* next instruction.  mw[i] is undefined from i = mw.length on: the final handler.
ProgramOf(f, mw) == IF f.i >= Len(mw) THEN <<"final">> ELSE Program(mw[f.i + 1])

\* Variant of the definition below: a strict comparison.
CalledTwice_Strict(i, idx) == i < idx

\* if (i <= idx) throw new Error('next() called multiple times')
CalledTwice(i, idx) == i <= idx

\* The activations left when a call of next() made by the innermost one
\* throws: one that made the call inside try/catch goes on, any other is
\* rejected, and the error reaches the next() call of the one that awaits it.
RECURSIVE Unwind(_, _)
Unwind(stk, mw) ==
  IF stk = <<>> THEN <<>>
  ELSE IF ProgramOf(stk[Len(stk)], mw)[stk[Len(stk)].pc - 1] = "trynext"
       THEN stk
       ELSE Unwind(SubSeq(stk, 1, Len(stk) - 1), mw)

\* runner(i), called with the activations stk awaiting it while idx is idx: the
\* guard, idx = i, and the start of mw[i] or of the final handler.  A call
\* from the chain itself (i = 0) is recorded as a call of "next" by -1.
Runner(i, idx, stk) ==
  IF CalledTwice(i, idx)
  THEN /\ chainStack' = Unwind(stk, mwList)
       /\ chainRun' = IF Unwind(stk, mwList) = <<>> THEN "failed" ELSE "running"
       /\ chainIdx' = idx
       /\ lastOp' = [op |-> "next", i |-> i - 1, thrown |-> TRUE]
  ELSE /\ chainIdx' = i
       /\ chainStack' = Append(stk, [i |-> i, pc |-> 1])
       /\ chainRun' = "running"
       /\ lastOp' = [op |-> "next", i |-> i - 1, thrown |-> FALSE]

\* A run of the chain: (ctx, final) => { let idx = -1; ... await runner(0) }
ChainRun(mw) ==
  /\ chainRun # "running"
  /\ mwList' = mw
  /\ chainLog' = <<>>
  /\ Runner(0, -1, <<>>)
  /\ UNCHANGED <<sharedVars, poolVars, retryVars, engineVars>>

\* The innermost activation runs its code before or after next(), or the
\* final handler runs.
ChainCode ==
  /\ chainRun = "running"
  /\ LET f == chainStack[Len(chainStack)]
         prog == ProgramOf(f, mwList)
     IN  /\ f.pc <= Len(prog)
         /\ prog[f.pc] \in {"pre", "post", "final"}
         /\ chainLog' = Append(chainLog, <<prog[f.pc], f.i>>)
         /\ chainStack' = [chainStack EXCEPT ![Len(chainStack)].pc = f.pc + 1]
         /\ lastOp' = [op |-> "chainCode", code |-> prog[f.pc], i |-> f.i]
  /\ UNCHANGED <<mwList, chainIdx, chainRun, sharedVars, poolVars, retryVars, engineVars>>

\* The innermost activation calls next(): () => runner(i + 1)
ChainNext ==
  /\ chainRun = "running"
  /\ LET f == chainStack[Len(chainStack)]
         prog == ProgramOf(f, mwList)
     IN  /\ f.pc <= Len(prog)
         /\ prog[f.pc] \in {"next", "trynext"}
         /\ Runner(f.i + 1, chainIdx, [chainStack EXCEPT ![Len(chainStack)].pc = f.pc + 1])
         /\ chainLog' = Append(chainLog, <<"next", f.i>>)
  /\ UNCHANGED <<mwList, sharedVars, poolVars, retryVars, engineVars>>

\* The innermost activation returns: the await on it resumes.
ChainReturn ==
  /\ chainRun = "running"
  /\ LET f == chainStack[Len(chainStack)]
     IN  /\ f.pc > Len(ProgramOf(f, mwList))
         /\ chainStack' = SubSeq(chainStack, 1, Len(chainStack) - 1)
         /\ chainRun' = IF Len(chainStack) = 1 THEN "done" ELSE "running"
         /\ lastOp' = [op |-> "return", i |-> f.i]
  /\ UNCHANGED <<mwList, chainIdx, chainLog, sharedVars, poolVars, retryVars, engineVars>>

(* ------------------------- retryDelay / shouldRetry ---------------------- *)
\* statusOrCode: a number or a string
Num(n) == [isNumber |-> TRUE, num |-> n, str |-> ""]
Str(t) == [isNumber |-> FALSE, num |-> 0, str |-> t]

\* The failures a request can end with: HTTP statuses and error codes.
Failures ==
  {Num(n) : n \in {200, 399, 400, 404, 408, 499, 500, 503}}
    \cup {Str(t) : t \in {"SESSION_EXPIRED", "TIMEOUT", "ECONNRESET"}}

\* Math.pow(b, e) for a natural e
RECURSIVE Pow(_, _)
Pow(b, e) == IF e = 0 THEN 1 ELSE b * Pow(b, e - 1)

\* Math.min(a, b)
Min(a, b) == IF a < b THEN a ELSE b

\* retryDelay(attempt)
RetryDelay(attempt) == Min(BASE_DELAY * Pow(2, attempt), MAX_DELAY)

\* Variant of the definition below: the limit is tested with > instead of >=.
ShouldRetry_Late(statusOrCode, attempt, maxRetries) ==
  IF attempt > maxRetries THEN FALSE
  ELSE IF statusOrCode.isNumber /\ statusOrCode.num >= 400 /\ statusOrCode.num < 500
          /\ statusOrCode.num # 408 THEN FALSE
  ELSE IF statusOrCode.isNumber /\ statusOrCode.num >= 500 THEN TRUE
  ELSE IF ~statusOrCode.isNumber /\ statusOrCode.str = "SESSION_EXPIRED" THEN TRUE
  ELSE IF ~statusOrCode.isNumber /\ statusOrCode.str = "TIMEOUT" THEN attempt < 1
  ELSE TRUE

\* shouldRetry(statusOrCode, attempt, maxRetries)
ShouldRetry(statusOrCode, attempt, maxRetries) ==
  IF attempt >= maxRetries THEN FALSE
  ELSE IF statusOrCode.isNumber /\ statusOrCode.num >= 400 /\ statusOrCode.num < 500
          /\ statusOrCode.num # 408 THEN FALSE
  ELSE IF statusOrCode.isNumber /\ statusOrCode.num >= 500 THEN TRUE
  ELSE IF ~statusOrCode.isNumber /\ statusOrCode.str = "SESSION_EXPIRED" THEN TRUE
  ELSE IF ~statusOrCode.isNumber /\ statusOrCode.str = "TIMEOUT" THEN attempt < 1
  ELSE TRUE

\* A retry loop starts: attempt counts from 0.
RetryStart(maxRetries) ==
  /\ ~retrying
  /\ retrying' = TRUE
  /\ retryAttempt' = 0
  /\ retryMax' = maxRetries
  /\ retryDelays' = <<>>
  /\ lastOp' = [op |-> "retryStart", max |-> maxRetries]
  /\ UNCHANGED <<sharedVars, poolVars, chainVars, engineVars>>

\* The request of the current attempt fails: the loop waits retryDelay(attempt)
\* and tries again while shouldRetry holds, and gives up otherwise.
RetryFailure(statusOrCode) ==
  /\ retrying
  /\ IF ShouldRetry(statusOrCode, retryAttempt, retryMax)
     THEN /\ retryDelays' = Append(retryDelays, RetryDelay(retryAttempt))
          /\ retryAttempt' = retryAttempt + 1
          /\ UNCHANGED retrying
     ELSE /\ retrying' = FALSE
          /\ UNCHANGED <<retryAttempt, retryDelays>>
  /\ lastOp' = [op |-> "shouldRetry", status |-> statusOrCode, attempt |-> retryAttempt,
                max |-> retryMax,
                result |-> ShouldRetry(statusOrCode, retryAttempt, retryMax)]
  /\ UNCHANGED <<retryMax, sharedVars, poolVars, chainVars, engineVars>>

\* The request of the current attempt succeeds: the loop ends.
RetrySuccess ==
  /\ retrying
  /\ retrying' = FALSE
  /\ lastOp' = [op |-> "retrySuccess", attempt |-> retryAttempt]
  /\ UNCHANGED <<retryAttempt, retryMax, retryDelays, sharedVars, poolVars, chainVars,
                 engineVars>>

(* ---------------------------- specifications --------------------------- *)
Init ==
  /\ tbl = {}
  /\ orderSeq = 0
  /\ nextUuid = 0
  /\ currentTxid = 0
  /\ activeTxs = [s \in {} |-> 0]
  /\ pending = {}
  /\ nextSid = 0
  /\ issued = <<>>
  /\ updating = {}
  /\ pushLog = <<>>
  /\ takeLog = <<>>
  /\ storage = {}
  /\ ptrCache = {}
  /\ resolving = {}
  /\ selects = 0
  /\ doStore = {}
  /\ kvStore = {}
  /\ kvOps = {}
  /\ sharedCalls = {}
  /\ callsMade = 0
  /\ quiet = FALSE
  /\ queues = [i \in 0..(NumWorkers - 1) |-> <<>>]
  /\ running = {}
  /\ submitted = 0
  /\ mwList = <<>>
  /\ chainIdx = -1
  /\ chainStack = <<>>
  /\ chainLog = <<>>
  /\ chainRun = "idle"
  /\ retryAttempt = 0
  /\ retryMax = DefaultMaxRetries
  /\ retrying = FALSE
  /\ retryDelays = <<>>
  /\ lastOp = [op |-> "init"]

\* An accessor that has resolved its physical name.
InitResolved ==
  /\ tbl = {}
  /\ orderSeq = 0
  /\ nextUuid = 0
  /\ currentTxid = 0
  /\ activeTxs = [s \in {} |-> 0]
  /\ pending = {}
  /\ nextSid = 0
  /\ issued = <<>>
  /\ updating = {}
  /\ pushLog = <<>>
  /\ takeLog = <<>>
  /\ storage \in {{r} : r \in {q \in StorageRows : q.owner = CtxOwner /\ MatchesAllowList(q.ptr)}}
  /\ ptrCache = {r.ptr : r \in storage}
  /\ resolving = {}
  /\ selects = 1
  /\ doStore = {}
  /\ kvStore = {}
  /\ kvOps = {}
  /\ sharedCalls = {}
  /\ callsMade = 0
  /\ quiet = FALSE
  /\ queues = [i \in 0..(NumWorkers - 1) |-> <<>>]
  /\ running = {}
  /\ submitted = 0
  /\ mwList = <<>>
  /\ chainIdx = -1
  /\ chainStack = <<>>
  /\ chainLog = <<>>
  /\ chainRun = "idle"
  /\ retryAttempt = 0
  /\ retryMax = DefaultMaxRetries
  /\ retrying = FALSE
  /\ retryDelays = <<>>
  /\ lastOp = [op |-> "init"]

\* Raw statements through the accessor.
NextExec ==
  \E sql \in Statements : Exec(sql)

\* The two-tier store, its callers and the KV requests in flight.
NextShared ==
  \/ \E v \in SharedVals : SharedSetCall(v)
  \/ \E c \in sharedCalls : SharedSetResume(c)
  \/ SharedDeleteCall
  \/ \E c \in sharedCalls : SharedDeleteResume(c)
  \/ SharedGetCall
  \/ \E c \in sharedCalls : SharedGetTier2(c)
  \/ \E c \in sharedCalls : SharedGetBackfill(c)
  \/ \E c \in sharedCalls : SharedGetReturn(c)
  \/ \E o \in kvOps : KvLand(o)
  \/ \E o \in kvOps : KvFail(o)
  \/ DoExpire

\* Retry loops, with the default and with other limits.
NextRetry ==
  \/ \E m \in 0..MaxRetries : RetryStart(m)
  \/ \E f \in Failures : RetryFailure(f)
  \/ RetrySuccess

\* Runs of a middleware chain.
NextChain ==
  \/ \E mw \in MwLists : ChainRun(mw)
  \/ ChainCode
  \/ ChainNext
  \/ ChainReturn

\* The pool, its callers and the workers' executions.
NextPool ==
  \/ Submit
  \/ \E r \in running : Settle(r)

\* The keyed operations of the accessor, from contexts with any horizon.
NextKV ==
  \/ \E id \in KnownIds, t \in CtxTxids : Get(id, t)
  \/ \E id \in KnownIds, v \in InputPayloads, t \in CtxTxids, o \in Owners : Set(id, v, t, o)
  \/ \E id \in KnownIds, t \in CtxTxids : Delete(id, t)

\* The keyed writes alone.
NextWrite ==
  \/ \E id \in KnownIds, v \in InputPayloads, t \in CtxTxids, o \in Owners : Set(id, v, t, o)
  \/ \E id \in KnownIds, t \in CtxTxids : Delete(id, t)

\* The keyed writes by two owners.
NextUpsert ==
  \/ \E id \in KnownIds, v \in InputPayloads, t \in CtxTxids, o \in Writers : Set(id, v, t, o)
  \/ \E id \in KnownIds, t \in CtxTxids : Delete(id, t)

\* The ordered-list operations of the accessor.
NextList ==
  \/ \E t \in CtxTxids, o \in Owners : Push(ListPayload(nextUuid + 1), t, o)
  \/ \E t \in CtxTxids : Pop(t)
  \/ \E t \in CtxTxids : Shift(t)
  \/ \E t \in CtxTxids : Query(EmptyFilter, t)

\* Read-modify-write updates by the keyed callers.
NextUpdate ==
  \/ \E id \in KnownIds, p \in FieldPartials, t \in CtxTxids, o \in Owners : UpdateRead(id, p, t, o)
  \/ \E u \in updating : UpdateWrite(u)

\* Updates of one record by callers that each write their own field.
NextRace ==
  \/ \E p \in FieldPartials, t \in CtxTxids, o \in Owners : UpdateRead(SetMin(Ids), p, t, o)
  \/ \E u \in updating : UpdateWrite(u)

\* The accessor's resolution, with the registry changing under it.
NextProxy ==
  \/ \E k \in OpKinds : Call(k)
  \/ \E c \in resolving : Resume(c)
  \/ \E reg \in Registries : Provision(reg)

\* Logical deletes, by id.
NextDelete ==
  \E id \in KnownIds, t \in CtxTxids : Delete(id, t)

\* Queries by the keyed callers.
NextQuery ==
  \E f \in QueryFilters, t \in CtxTxids : Query(f, t)

\* The coordinator's operations.
NextCoord ==
  \/ AllocateTxid
  \/ BeginCall
  \/ \E p \in pending : BeginResume(p)
  \/ \E sid \in CommitSids : Commit(sid)

\* Writes stamped with a txid the coordinator has handed out, and the sweep.
NextGC ==
  \/ \E id \in KnownIds, v \in InputPayloads, t \in 1..currentTxid, o \in Owners : Set(id, v, t, o)
  \/ \E id \in KnownIds, t \in 1..currentTxid : Delete(id, t)
  \/ Sweep

Next == NextKV \/ NextList \/ NextCoord \/ Sweep

Spec == Init /\ [][Next]_vars
\* The keyed accessor alone.
SpecKV == Init /\ [][NextKV]_vars
\* The whole accessor.
SpecStore == Init /\ [][NextKV \/ NextList]_vars
\* The keyed accessor with queries.
SpecQuery == Init /\ [][NextKV \/ NextQuery]_vars
\* The keyed writes alone, by two owners.
SpecUpsert == Init /\ [][NextUpsert]_vars
\* Guarded raw execution on a resolved accessor.
SpecExec == InitResolved /\ [][NextExec]_vars
\* The retry policy.
SpecRetry == Init /\ [][NextRetry]_vars
\* The middleware chain.
SpecChain == Init /\ [][NextChain]_vars
\* The worker pool.
SpecPool == Init /\ [][NextPool]_vars
\* The two-tier shared store.
SpecShared == Init /\ [][NextShared]_vars
\* Resolution of the physical name.
SpecProxy == Init /\ [][NextProxy]_vars
\* Concurrent updates alone.
SpecRace == Init /\ [][NextRace]_vars
\* The keyed writes with updates.
SpecUpdate == Init /\ [][NextWrite \/ NextUpdate]_vars
\* The ordered list alone.
SpecList == Init /\ [][NextList]_vars
\* The ordered list with logical deletes of its records.
SpecListDelete == Init /\ [][NextList \/ NextDelete]_vars
\* The coordinator, the writes of its transactions and the cleanup.
SpecTx == Init /\ [][NextCoord \/ NextGC]_vars

(* ------------------------------ properties ----------------------------- *)
\* The data table has id as its primary key: at most one row per id.
PrimaryKey == \A r1 \in tbl, r2 \in tbl : r1.id = r2.id => r1 = r2

\* The visibility rule of the specification, for a row and a horizon.
VisibleAt(r, h) == r.txid < h /\ (r.deleted = NULL \/ \E d \in r.deleted : d >= h)

\* C1: get(id) at horizon currentTxid returns the stored payload of id if and
\* only if a row for id exists with creationTxid < currentTxid and
\* (deletionTxid is null or deletionTxid >= currentTxid); otherwise absent.
C1_GetVisibility ==
  lastOp.op = "get" =>
    LET seen == {r \in tbl : r.id = lastOp.id /\ VisibleAt(r, lastOp.txid)}
    IN /\ (lastOp.result # NULL) <=> (seen # {})
       /\ lastOp.result # NULL => \E r \in seen : lastOp.result = {r.data}

\* C1 witness: a get returned the payload of a row whose deletion marker is
\* at or above the reader's horizon.
C1_Witness ==
  /\ lastOp.op = "get"
  /\ lastOp.result # NULL
  /\ \E r \in tbl : r.id = lastOp.id /\ r.deleted # NULL

\* C2: after set(id, v) with write txid W, the next get(id) at any horizon
\* above W returns v, whatever the table held before the set.
C2_SetThenGet ==
  (/\ lastOp.op = "get"
   /\ lastOp.prev.op = "set"
   /\ lastOp.prev.id = lastOp.id
   /\ lastOp.txid > lastOp.prev.txid)
  => lastOp.result = {lastOp.prev.value}

\* C3: after delete(id) at txid T on an existing id, the next get(id) at any
\* horizon above T returns absent.
C3_DeleteThenGet ==
  (/\ lastOp.op = "get"
   /\ lastOp.prev.op = "delete"
   /\ lastOp.prev.result
   /\ lastOp.prev.id = lastOp.id
   /\ lastOp.txid > lastOp.prev.txid)
  => lastOp.result = NULL

\* C3 witness: a get above the txid of the delete that preceded it, on a row
\* that was created below the reader's horizon.
C3_Witness ==
  /\ lastOp.op = "get"
  /\ lastOp.prev.op = "delete"
  /\ lastOp.prev.result
  /\ lastOp.prev.id = lastOp.id
  /\ lastOp.txid > lastOp.prev.txid
  /\ \E r \in tbl : r.id = lastOp.id /\ r.txid < lastOp.txid

\* C4: a write stamped W is invisible to every reader with horizon <= W: a get
\* right after set(id, .) at W from a horizon <= W returns absent, and so does
\* every get of an id whose row carries a creation txid >= the horizon.
C4_FutureWriteInvisible ==
  lastOp.op = "get" =>
    /\ (/\ lastOp.prev.op = "set"
        /\ lastOp.prev.id = lastOp.id
        /\ lastOp.txid <= lastOp.prev.txid) => lastOp.result = NULL
    /\ (\A r \in tbl : r.id = lastOp.id => r.txid >= lastOp.txid) => lastOp.result = NULL

\* C4 witness: the writer reads its own write at its own horizon.
C4_Witness ==
  /\ lastOp.op = "get"
  /\ lastOp.prev.op = "set"
  /\ lastOp.prev.id = lastOp.id
  /\ lastOp.txid = lastOp.prev.txid
  /\ \E r \in tbl : r.id = lastOp.id /\ r.deleted = NULL

\* C5: snapshot stability: if get(id) at horizon H returns v, it still returns
\* v after a set(id, .) or delete(id) stamped with a txid >= H.
C5_SnapshotStable ==
  [][\A id \in KnownIds, h \in CtxTxids :
       (/\ lastOp'.op \in {"set", "delete"}
        /\ lastOp'.id = id
        /\ lastOp'.txid >= h
        /\ GetResults(tbl, id, h) # {NULL})
       => GetResults(tbl', id, h) = GetResults(tbl, id, h)]_vars

\* C6: minActiveTxid is the least txid of the active-session map when the map
\* is non-empty, hence at most every txid in it, and the counter when empty.
C6_MinActive ==
  IF DOMAIN activeTxs = {}
  THEN minActiveTxid = currentTxid
  ELSE /\ \E s \in DOMAIN activeTxs : minActiveTxid = activeTxs[s]
       /\ \A s \in DOMAIN activeTxs : minActiveTxid <= activeTxs[s]

\* C6 witness: two sessions are active, with different txids, below the counter's
\* value or at it.
C6_Witness ==
  \E s1 \in DOMAIN activeTxs, s2 \in DOMAIN activeTxs : activeTxs[s1] < activeTxs[s2]

\* C7: successive observations of minActiveTxid never decrease.
C7_MinActiveMonotonic ==
  [][MinActive(currentTxid', activeTxs') >= MinActive(currentTxid, activeTxs)]_vars

C9_SweepInvisible ==
  [][lastOp'.op = "sweep" =>
       \A s \in DOMAIN activeTxs, id \in KnownIds :
         GetResults(tbl', id, activeTxs[s]) = GetResults(tbl, id, activeTxs[s])]_vars

\* C9 witness: a sweep has run while an open transaction reads a row that was
\* created below the sweep's horizon.
C9_Witness ==
  /\ lastOp.op = "sweep"
  /\ \E s \in DOMAIN activeTxs, r \in tbl :
       /\ r.txid < lastOp.horizon
       /\ GetResults(tbl, r.id, activeTxs[s]) = {{r.data}}

\* C10: a sweep leaves at least one row of every id that had a row without a
\* deletion marker, and removes only rows for which a newer row of the same id
\* exists below the horizon.
C10_SweepKeepsLive ==
  [][lastOp'.op = "sweep" =>
       /\ \A r \in tbl : r.deleted = NULL => \E k \in tbl' : k.id = r.id
       /\ \A r \in tbl \ tbl' :
            \E n \in tbl : n.id = r.id /\ n.txid > r.txid /\ n.txid < lastOp'.horizon]_vars

\* C10 witness: a sweep has run over a table holding a row without a deletion
\* marker created below the horizon, and the row is there.
C10_Witness ==
  /\ lastOp.op = "sweep"
  /\ \E r \in tbl : r.deleted = NULL /\ r.txid < lastOp.horizon

\* C11: for a fixed horizon H, repeated sweeps eventually remove every row whose
\* deletion marker is set and below H.  The sweep is a function of the relation
\* and the horizon, so a sweep that removes nothing is repeated unchanged by every
\* later sweep at that horizon: such a sweep must leave no soft-deleted row
\* below its horizon.
C11_SoftDeletedCollected ==
  [][(lastOp'.op = "sweep" /\ tbl' = tbl) =>
       ~\E r \in tbl' : ~IsNull(r.deleted) /\ ValueOf(r.deleted) < lastOp'.horizon]_vars

\* The rows of the relation that a step removes: their ids are gone afterwards.
RemovedRows == {r \in tbl : ~\E q \in tbl' : q.id = r.id}

\* C12: no accessor operation physically removes a row; the set of physical
\* rows shrinks only by a sweep, and only by rows older than its horizon.
C12_OnlySweepRemoves ==
  [][RemovedRows # {} =>
       /\ lastOp'.op = "sweep"
       /\ \A r \in RemovedRows : r.txid < lastOp'.horizon]_vars

\* C13: every record yielded by query(predicate) at horizon currentTxid is
\* the payload of a row visible at that horizon under the rule of get, and
\* every visible row whose payload is a structural superset of the predicate
\* is yielded: the rows yielded are exactly the visible rows that match.
C13_QueryVisibility ==
  lastOp.op = "query" =>
    {lastOp.rows[i] : i \in DOMAIN lastOp.rows}
      = {r \in tbl : VisibleAt(r, lastOp.txid) /\ Contains(r.data, lastOp.filter)}

\* C14: every record returned by pop() or shift() at horizon currentTxid was
\* visible at that horizon under the rule of get; a soft-deleted or
\* future-written row is never returned.
C14_TakeVisible ==
  (lastOp.op \in {"pop", "shift"} /\ ~IsNull(lastOp.row)) =>
    VisibleAt(ValueOf(lastOp.row), lastOp.txid)

\* The rows visible at a horizon, and the rows of greatest and least order
\* among a set of rows.
VisibleRows(t, h) == {r \in t : VisibleAt(r, h)}
Greatest(V) == {r \in V : \A v \in V : v.order <= r.order}
Least(V) == {r \in V : \A v \in V : r.order <= v.order}

\* C15: pop() returns the record with the greatest order among the rows
\* visible at currentTxid and shift() the one with the least order among them;
\* each returns absent only when no row is visible at currentTxid.
C15_TakeExtremeVisible ==
  [][/\ lastOp'.op = "pop" =>
          IF VisibleRows(tbl, lastOp'.txid) = {} THEN IsNull(lastOp'.row)
          ELSE lastOp'.row \in {{r} : r \in Greatest(VisibleRows(tbl, lastOp'.txid))}
     /\ lastOp'.op = "shift" =>
          IF VisibleRows(tbl, lastOp'.txid) = {} THEN IsNull(lastOp'.row)
          ELSE lastOp'.row \in {{r} : r \in Least(VisibleRows(tbl, lastOp'.txid))}]_vars

\* The row inserted by the push of a step that extends the push history.
Pushed == pushLog'[Len(pushLog')]

\* C16: under any interleaving of push() calls on one table, each insert
\* statement atomic, a push receives the current maximum order plus one (1 on an
\* empty table), strictly greater than the order of every row present when its
\* statement executes, and the pushes of a run receive pairwise distinct orders.
C16_PushOrder ==
  [][Len(pushLog') = Len(pushLog) + 1 =>
       /\ Pushed \in tbl' \ tbl
       /\ \A r \in tbl : r.order < Pushed.order
       /\ Pushed.order = IF tbl = {} THEN 1 ELSE SetMax({r.order : r \in tbl}) + 1
       /\ takeLog' = <<>> =>
            \A i, j \in DOMAIN pushLog' : i # j => pushLog'[i].order # pushLog'[j].order]_vars

\* C16 witness: three pushes, stamped with different txids, have run with no
\* removal in between.
C16_Witness ==
  /\ lastOp.op = "push"
  /\ Len(pushLog) = 3
  /\ takeLog = <<>>
  /\ pushLog[1].txid # pushLog[2].txid
  /\ {pushLog[i].order : i \in DOMAIN pushLog} = {1, 2, 3}

\* C17: over any sequence of push, pop and shift operations on one table, the
\* order assigned by a push is strictly greater than the order assigned by
\* every earlier push, so no order value is assigned twice.
C17_OrderMonotonic ==
  \A i, j \in DOMAIN pushLog : i < j => pushLog[i].order < pushLog[j].order

\* The three records of the list scenario.
RecA == [name |-> "a"]
RecB == [name |-> "b"]
RecC == [name |-> "c"]

\* Exactly three pushes have run, of a, b and c in this order, and the step
\* at hand is an operation at a horizon above their txids.
AfterThreePushes ==
  /\ Len(pushLog) = 3 /\ Len(pushLog') = 3
  /\ <<pushLog[1].data, pushLog[2].data, pushLog[3].data>> = <<RecA, RecB, RecC>>
  /\ \A i \in 1..3 : pushLog[i].txid < lastOp'.txid

\* C18: after push(a), push(b), push(c) on an empty table, a pop() at a
\* horizon above the pushes' txids returns c, the following shift() returns a,
\* and the following query({}) yields exactly b.
C18_ListScenario ==
  [][AfterThreePushes =>
       /\ (takeLog = <<>> /\ lastOp'.op = "pop") => lastOp'.result = {RecC}
       /\ (takeLog = <<pushLog[3]>> /\ lastOp.op = "pop" /\ lastOp'.op = "shift")
            => lastOp'.result = {RecA}
       /\ (takeLog = <<pushLog[3], pushLog[1]>> /\ lastOp.op = "shift"
             /\ lastOp'.op = "query")
            => lastOp'.result = <<RecB>>]_vars

\* C18 witness: the scenario has run to its end: a, b, c were pushed, c and
\* then a were returned, and a query({}) above the pushes' txids yielded b.
C18_Witness ==
  /\ Len(pushLog) = 3
  /\ <<pushLog[1].data, pushLog[2].data, pushLog[3].data>> = <<RecA, RecB, RecC>>
  /\ Len(takeLog) = 2
  /\ <<takeLog[1].data, takeLog[2].data>> = <<RecC, RecA>>
  /\ lastOp.op = "query"
  /\ \A i \in 1..3 : pushLog[i].txid < lastOp.txid
  /\ lastOp.result = <<RecB>>

\* C19: each pushed record is returned by at most one pop()/shift() call, and
\* on a list with a single visible element a pop() or shift() returns that
\* element, every later one (no element being visible any more) returning absent.
C19_TakeOnce ==
  [][lastOp'.op \in {"pop", "shift"} =>
       /\ \A i, j \in DOMAIN takeLog' : i # j => takeLog'[i].id # takeLog'[j].id
       /\ Cardinality(VisibleRows(tbl, lastOp'.txid)) = 1
            => lastOp'.row \in {{r} : r \in VisibleRows(tbl, lastOp'.txid)}
       /\ VisibleRows(tbl, lastOp'.txid) = {} => IsNull(lastOp'.row)]_vars

\* C20: for every id whose row holds payload p, after update(id, partial)
\* completes without interleaved writers the stored payload is p overlaid with
\* the fields of partial, stamped with the update's currentTxid.
C20_UpdateMerges ==
  [][(lastOp'.op = "update" /\ updating' # updating /\ lastOp'.undisturbed) =>
       \A p \in RowsOf(tbl, lastOp'.id) :
         \E r \in RowsOf(tbl', lastOp'.id) :
           /\ r.data = ObjectAssign(p.data, lastOp'.partial)
           /\ r.txid = lastOp'.txid]_vars

\* C21: update() is not atomic.  The write of an update stores what its own
\* read returned, overlaid with its partial: every field the call does not name
\* gets the value (or the absence) its read returned, whatever another update
\* wrote to the row between that read and this write.  So of two concurrent
\* updates of disjoint fields that both read before either writes, the later
\* write drops the field of the earlier one.
C21_UpdateNotAtomic ==
  [][(lastOp'.op = "update" /\ updating' # updating) =>
       \A u \in updating \ updating' :
         \A r \in RowsOf(tbl', u.id) :
           \A k \in Fields \ DOMAIN u.partial :
             /\ k \in DOMAIN r.data <=> k \in DOMAIN BaseOf(u.current)
             /\ k \in DOMAIN r.data => r.data[k] = BaseOf(u.current)[k]]_vars

\* C21 witness: two updates of disjoint fields read the id while it had no
\* row; one wrote its field, then the other wrote, and the stored payload lacks
\* the field of the first.
C21_Witness ==
  /\ lastOp.op = "update"
  /\ lastOp.seen = {}
  /\ ~lastOp.undisturbed
  /\ \E p \in lastOp.before :
       /\ p.txid = lastOp.txid
       /\ DOMAIN p.data # {}
       /\ DOMAIN p.data \cap DOMAIN lastOp.partial = {}
       /\ \A r \in RowsOf(tbl, lastOp.id) : DOMAIN r.data \cap DOMAIN p.data = {}

C23_SetUpsert ==
  [][lastOp'.op = "set" =>
       /\ PrimaryKey'
       /\ IF RowsOf(tbl, lastOp'.id) = {}
          THEN \E r \in tbl' :
                 /\ tbl' = tbl \cup {r}
                 /\ r \notin tbl
                 /\ r.id = lastOp'.id /\ r.data = lastOp'.value /\ r.txid = lastOp'.txid
                 /\ r.owner = lastOp'.owner /\ IsNull(r.deleted)
          ELSE \A r \in RowsOf(tbl, lastOp'.id) :
                 tbl' = (tbl \ {r}) \cup
                   {Row(r.id, lastOp'.value, lastOp'.txid, r.deleted, r.owner, r.order)}]_vars

\* C23 witness: a set by another owner, at a lower txid than the stored one,
\* has overwritten a soft-deleted row; marker, owner and order are the old ones.
C23_Witness ==
  /\ lastOp.op = "set"
  /\ \E r \in tbl :
       /\ r.id = lastOp.id /\ r.data = lastOp.value /\ r.txid = lastOp.txid
       /\ r.owner # lastOp.owner
       /\ ~IsNull(r.deleted)
       /\ r.order < orderSeq

\* A resolution query that found a row with a well-formed ptr is outstanding.
ResolutionUnderWay ==
  \E c \in resolving : c.rows # {} /\ \A r \in c.rows : MatchesAllowList(r.ptr)

\* C26: for an accessor whose registry row exists, all getPtr() calls and data
\* operations together send one resolution query: once a query has found the
\* row, whether its call has resumed or is still suspended, no call sends another.
C26_OneResolution ==
  [][(ResolutionUnderWay \/ Truthy(ptrCache)) => selects' = selects]_vars

\* C27: once the accessor has resolved its physical location, every later
\* operation targets that location, whatever happens to the registry row: the
\* cached ptr never changes and every data statement names it.
C27_CacheStable ==
  [][Truthy(ptrCache) =>
       /\ ptrCache' = ptrCache
       /\ (lastOp'.op \in OpKinds /\ lastOp' # lastOp /\ ~IsNull(lastOp'.stmt)) =>
            \A st \in lastOp'.stmt : {st.table} = ptrCache]_vars

\* The allow-list of the specification: ASCII letters, digits and underscore,
\* at least one character.
AllowListed(str) == str # <<>> /\ Range(str) \subseteq WordChars

\* The registry rows that match the accessor: its logical name and the owner
\* of its context.
Matching(reg) == {r \in reg : r.id = LogicalName /\ r.owner = CtxOwner}

\* C28: when no registry row matches (logical name, owner of the context), the
\* operation fails with NotFound without a statement against a physical
\* relation, and the failure is not cached: the cache is left as it was, and a
\* call whose query finds a matching row with a well-formed ptr resolves to it.
\* A row registered for another owner is never resolved.
C28_NotFound ==
  [][/\ \A c \in resolving' \ resolving : c.rows = Matching(storage)
     /\ \A c \in resolving \ resolving' :
          IF Matching(c.reg) = {}
          THEN /\ lastOp'.outcome = "NotFound"
               /\ IsNull(lastOp'.stmt)
               /\ ptrCache' = ptrCache
          ELSE /\ lastOp'.outcome # "NotFound"
               /\ \A r \in Matching(c.reg) :
                    AllowListed(r.ptr) =>
                      /\ lastOp'.outcome = "ok"
                      /\ lastOp'.ptr = {r.ptr}
                      /\ ptrCache' = {r.ptr}]_vars

\* C28 witness: a get() failed with NotFound while the registry held a row of
\* the logical name for another owner; nothing is cached.
C28_Witness ==
  /\ lastOp.op = "get"
  /\ lastOp.outcome = "NotFound"
  /\ \E r \in lastOp.reg : r.owner # CtxOwner /\ AllowListed(r.ptr)
  /\ IsNull(lastOp.stmt)
  /\ IsNull(ptrCache)

\* C29: no statement sent by an accessor operation has interpolated into it a
\* physical name that fails the allow-list: when the registry returns such a
\* ptr the operation fails with InvalidIdentifier, sends no statement, and the
\* ptr is not stored in the cache.
C29_AllowList ==
  [][/\ \A p \in ptrCache' : AllowListed(p)
     /\ (lastOp'.op \in OpKinds /\ lastOp' # lastOp) =>
          \A st \in lastOp'.stmt : AllowListed(st.table)
     /\ \A c \in resolving \ resolving' :
          (\E r \in c.rows : ~AllowListed(r.ptr)) =>
            /\ lastOp'.outcome = "InvalidIdentifier"
            /\ IsNull(lastOp'.stmt)
            /\ ptrCache' = ptrCache]_vars

\* C29 witness: a get() failed with InvalidIdentifier on a registry row whose
\* ptr holds a character outside the allow-list; nothing is cached.
C29_Witness ==
  /\ lastOp.op = "get"
  /\ lastOp.outcome = "InvalidIdentifier"
  /\ \E r \in lastOp.reg : r.owner = CtxOwner /\ r.ptr = <<"t", "-">>
  /\ IsNull(lastOp.stmt)
  /\ IsNull(ptrCache)

(* ------------------------- guarded raw execution ------------------------- *)
\* The relation a chunk in a table position names: a trailing comma is not part
\* of it, a quoted name is taken as written, a bare one folds to lower case.
StripComma(str) ==
  IF str # <<>> /\ str[Len(str)] = "," THEN SubSeq(str, 1, Len(str) - 1) ELSE str

Relation(str) ==
  LET s == StripComma(str)
  IN  IF Len(s) >= 2 /\ s[1] = "\"" /\ s[Len(s)] = "\""
      THEN SubSeq(s, 2, Len(s) - 1)
      ELSE ToLowerCase(s)

\* The positions of sql that are table positions after one of the keywords kws:
\* the chunk after the keyword, and each further item of a comma-separated list.
TablePositions(sql, kws) ==
  {i \in DOMAIN sql :
     \E j \in 1..(i - 1) :
       /\ ToLowerCase(sql[j]) \in kws
       /\ \A k \in (j + 1)..(i - 1) : sql[k][Len(sql[k])] = ","}

\* The relations other than ptr that sql names after one of the keywords kws.
OtherRelations(sql, kws, ptr) ==
  {Relation(sql[i]) : i \in TablePositions(sql, kws)} \ {ToLowerCase(ptr)}

\* name occurs in some chunk of sql as a whole word
Occurs(sql, name) ==
  \E i \in DOMAIN sql : \E k \in DOMAIN sql[i] : MatchAt(sql[i], k, name)

\* C24: exec(rawStatement, params) rewrites every occurrence of the logical name
\* to the physical name and forwards the rewritten statement if and only if no
\* FROM/JOIN target in it differs from the physical name; otherwise it fails
\* with CrossTableAccess and forwards nothing.
C24_ExecGuard ==
  lastOp.op = "exec" =>
    LET ptr == ValueOf(lastOp.ptr)
        rewritten == Rewrite(lastOp.sql, LogicalName, ptr)
    IN  /\ ~Occurs(rewritten, LogicalName)
        /\ IF OtherRelations(rewritten, {KwFrom, KwJoin}, ptr) = {}
           THEN /\ lastOp.outcome = "ok"
                /\ lastOp.stmt = {[op |-> "exec", text |-> rewritten]}
           ELSE /\ lastOp.outcome = "CrossTableAccess"
                /\ IsNull(lastOp.stmt)

KwUpdate == <<"u", "p", "d", "a", "t", "e">>
KwInto == <<"i", "n", "t", "o">>

\* C25: every statement exec() forwards names no relation other than the
\* resolved physical relation in any table position: FROM item, JOIN, and
\* INSERT INTO / UPDATE / DELETE target.
C25_ExecScoped ==
  (lastOp.op = "exec" /\ ~IsNull(lastOp.stmt)) =>
    \A st \in lastOp.stmt :
      OtherRelations(st.text, {KwFrom, KwJoin, KwUpdate, KwInto}, ValueOf(lastOp.ptr)) = {}

(* --------------------------------- commit -------------------------------- *)
\* C30: commit(sessionId) removes at most the active-map entry of that session
\* and changes nothing else: the counter, the suspended calls and every other
\* session's txid stay; for a session id that is unknown or already committed
\* the whole coordinator state stays, and the call returns.
C30_CommitFrame ==
  [][lastOp'.op = "commit" =>
       /\ DOMAIN activeTxs' = DOMAIN activeTxs \ {lastOp'.sid}
       /\ \A s \in DOMAIN activeTxs' : activeTxs'[s] = activeTxs[s]
       /\ currentTxid' = currentTxid
       /\ pending' = pending
       /\ nextSid' = nextSid
       /\ issued' = issued
       /\ tbl' = tbl
       /\ (lastOp'.sid \notin DOMAIN activeTxs => activeTxs' = activeTxs)]_vars

\* A commit has returned and another session is still active.
C30_Witness ==
  /\ lastOp.op = "commit"
  /\ lastOp.sid \notin DOMAIN activeTxs
  /\ DOMAIN activeTxs # {}

(* --------------------------- sessions never expire ----------------------- *)
\* C31: a session leaves the active map only through commit of its own id. On
\* every other step a session begun with txid T is still in the map with T, and
\* minActiveTxid is at most T afterwards, whatever else begins and commits.
C31_ActiveUntilCommit ==
  [][\A s \in DOMAIN activeTxs :
       \/ lastOp'.op = "commit" /\ lastOp'.sid = s
       \/ /\ s \in DOMAIN activeTxs'
          /\ activeTxs'[s] = activeTxs[s]
          /\ MinActive(currentTxid', activeTxs') <= activeTxs[s]]_vars

\* Session 1 is still active with its txid after a later session has begun and
\* committed, and it holds the horizon below the counter.
C31_Witness ==
  /\ lastOp.op = "commit"
  /\ lastOp.sid = 2
  /\ 1 \in DOMAIN activeTxs
  /\ activeTxs[1] < currentTxid
  /\ minActiveTxid = activeTxs[1]

(* ------------------------------- the sweep ------------------------------- *)
\* Every id has at most one row created below the horizon h.
AtMostOneBelow(t, h) ==
  \A id \in {r.id : r \in t} : Cardinality({r \in t : r.id = id /\ r.txid < h}) <= 1

\* C33: the sweep is convergent and idempotent.  A sweep only removes rows, so
\* repeated sweeps at one horizon stop removing after finitely many runs; a
\* sweep removes nothing exactly when every id has at most one version below
\* the horizon, and from the state it leaves no run of the sweep at that
\* horizon removes anything.
C33_SweepConverges ==
  [][lastOp'.op = "sweep" =>
       /\ tbl' \subseteq tbl
       /\ (tbl' = tbl) <=> AtMostOneBelow(tbl, lastOp'.horizon)
       /\ (tbl' = tbl) =>
            \A S \in CleanupIds(tbl', lastOp'.horizon) :
              CleanupDelete(tbl', lastOp'.horizon, S) = tbl']_vars

\* A sweep has run over a table holding a row below its horizon, and in the
\* state it left no id is selected by a further run.
C33_Witness ==
  /\ lastOp.op = "sweep"
  /\ \E r \in tbl : r.txid < lastOp.horizon
  /\ AtMostOneBelow(tbl, lastOp.horizon)
  /\ CleanupGroups(tbl, lastOp.horizon) = {}

\* C34: a sweep with horizon H removes no row created at H or later, and
\* modifies no row: what it leaves is a subset of what it found.
C34_SweepFrame ==
  [][lastOp'.op = "sweep" =>
       /\ tbl' \subseteq tbl
       /\ \A r \in tbl \ tbl' : r.txid < lastOp'.horizon]_vars

\* A sweep has run over a table holding a row created at its horizon or
\* later, and the row is there.
C34_Witness ==
  /\ lastOp.op = "sweep"
  /\ \E r \in tbl : r.txid >= lastOp.horizon

(* --------------------------- stable deletion ----------------------------- *)
\* C35: once the row of an id carries the deletion marker D, no accessor
\* operation raises or clears it: the row of that id carries D after every
\* step, so a get at a horizon above D that returned absent stays absent.
C35_DeletionStable ==
  [][\A r \in tbl : ~IsNull(r.deleted) =>
       \A q \in tbl' : q.id = r.id => q.deleted = r.deleted]_vars

(* ------------------------------ push then pop ---------------------------- *)
\* C36: on one accessor (one context, one currentTxid), push(v) on an empty
\* table followed by pop() returns v, and followed instead by shift() returns v.
C36_PushThenTake ==
  [][(/\ lastOp.op = "push"
      /\ tbl = {pushLog[Len(pushLog)]}
      /\ lastOp'.op \in {"pop", "shift"}
      /\ lastOp'.txid = lastOp.txid)
     => lastOp'.result = {lastOp.value}]_vars

(* ------------------------------ SharedStorage ---------------------------- *)
\* C37: after delete(key) has resolved, a get(key) returns null and does not
\* write the key back to the DO tier, whatever the KV delete and the KV writes
\* of earlier set calls, still in flight, do.
C37_DeleteBothTiers ==
  (lastOp.op = "sharedGet" /\ lastOp.quiet) =>
    (IsNull(lastOp.result) /\ ~lastOp.filled)

(* --------------------------------- DOPool -------------------------------- *)
\* The number of places task t takes in the worker queues.
Queued(t) ==
  Cardinality({<<i, k>> \in WorkerIds \X (1..MaxTasks) : k <= Len(queues[i]) /\ queues[i][k] = t})

\* C38: the queues hold exactly the tasks in flight: a submitted task is in
\* exactly one queue until its execute() settles and in none afterwards, so
\* with every task settled every queue is empty.
C38_QueuesHoldInFlight ==
  /\ \A t \in 1..submitted :
       Queued(t) = IF \E r \in running : r.task = t THEN 1 ELSE 0
  /\ running = {} => \A i \in WorkerIds : queues[i] = <<>>

(* ---------------------------- middleware chain --------------------------- *)
\* The positions of the run's history where the code `code` of activation i ran.
Ran(code, i) == {p \in DOMAIN chainLog : chainLog[p] = <<code, i>>}

C40_RetryTerminates ==
  /\ retryAttempt <= retryMax
  /\ Len(retryDelays) = retryAttempt
  /\ lastOp.op = "shouldRetry" =>
       /\ lastOp.attempt >= lastOp.max => ~lastOp.result
       /\ (lastOp.status.isNumber /\ lastOp.status.num \in 400..499
             /\ lastOp.status.num # 408) => ~lastOp.result
       /\ (lastOp.status.str = "TIMEOUT" /\ lastOp.result) => lastOp.attempt = 0
  /\ \A k \in DOMAIN retryDelays :
       /\ retryDelays[k] <= 10000
       /\ k > 1 => retryDelays[k - 1] <= retryDelays[k]
  /\ \A a \in 0..MaxRetries :
       RetryDelay(a) <= 10000 /\ RetryDelay(a) <= RetryDelay(a + 1)

\* A loop run with maxRetries = 8 has retried eight times, waited 6400 and then
\* the capped 10000, and gives up at attempt 8 on a status it retried before.
C40_Witness ==
  /\ lastOp.op = "shouldRetry"
  /\ lastOp.status = Num(503)
  /\ lastOp.attempt = 8
  /\ ~lastOp.result
  /\ ~retrying
  /\ Len(retryDelays) = 8
  /\ retryDelays[7] = 6400
  /\ retryDelays[8] = 10000

====
